---- MODULE Spec2Model ----
(***************************************************************************)
(* State-machine model of the project portal backend (Flask handlers in    *)
(* api/*.py over the SQLite tables managed by database/db_*.py).           *)
(*                                                                         *)
(* Tables are modelled as sets of rows.  Every database function opens a   *)
(* connection with sqlite3.connect / get_connection and never issues       *)
(* PRAGMA foreign_keys = ON, so the ON DELETE CASCADE clauses of the       *)
(* schema are inert: a DELETE removes the addressed rows and nothing else. *)
(* Free-text columns (name, description, tags, link, timestamps,           *)
(* last_edited_by_id) are not represented: no handler branches on them.    *)
(***************************************************************************)
EXTENDS Integers, FiniteSets, Sequences, Bags, TLC

\* ---------------------------------------------------------------- bounds
NumUsers == 3
NumProjects == 1
MaxNotifications == 2
MaxFiles == 2
MaxRatingInput == 2
MaxReports == 1
MaxClock == 2
NumRequests == 1

\* ------------------------------------------------------ program constants
MIN_RATING == 1
MAX_RATING == 5

UserIds == 1..NumUsers
ProjectIds == 1..NumProjects
None == 0

VARIABLES
    users,            \* ids of the rows of table users
    admins,           \* ids of the users rows with admin = 1
    projects,         \* [project id -> [approved, file_path]], rows of table projects
    project_seq,      \* AUTOINCREMENT counter of table projects
    project_creator,  \* [project id -> user id], the creator recorded at creation
    project_owners,   \* set of <<project_id, user_id>>, rows of table project_owners
    project_ratings,  \* set of [project_id, user_id, rating], rows of table project_ratings
    notifications,    \* set of [id, user_id, project_id, type, is_read]
    notification_seq, \* AUTOINCREMENT counter of table notifications
    uploads,          \* set of <<project id, file generation>>: files present in UPLOAD_FOLDER
    requests,         \* bag of the requests waiting between two of their statements
    reports,          \* set of rows of table reports
    report_seq,       \* AUTOINCREMENT counter of table reports
    resp              \* the last response sent: [op, status, message]

vars == <<users, admins, projects, project_seq, project_creator, project_owners,
          project_ratings, notifications, notification_seq, uploads, requests,
          reports, report_seq, resp>>

\* ---------------------------------------------------------------- helpers
RECURSIVE SumRatings(_)
SumRatings(rows) ==
    IF rows = {} THEN 0
    ELSE LET r == CHOOSE x \in rows : TRUE
         IN  r.rating + SumRatings(rows \ {r})

Response(op, status, message) ==
    [op |-> op, status |-> status, message |-> message]

OwnersOf(p) == {r[2] : r \in {x \in project_owners : x[1] = p}}

\* ------------------------------------------------------------ db_users.py
is_admin(user_id) == user_id \in admins

\* variant: the first row only
get_admin_user_ids_first == IF admins = {} THEN {} ELSE {CHOOSE u \in admins : TRUE}

get_admin_user_ids == admins

delete_user(user_id) ==
    IF user_id \notin users
    THEN [success |-> FALSE, users |-> users, admins |-> admins]
    ELSE [success |-> TRUE, users |-> users \ {user_id}, admins |-> admins \ {user_id}]

update_user(user_id, admin) ==
    IF user_id \notin users
    THEN [success |-> FALSE, admins |-> admins]
    ELSE [success |-> TRUE,
          admins |-> IF admin = 1 THEN admins \cup {user_id} ELSE admins \ {user_id}]

\* --------------------------------------------------- db_project_owners.py
is_project_owner(project_id, user_id) == <<project_id, user_id>> \in project_owners

get_project_creator(project_id) ==
    IF project_id \in DOMAIN project_creator THEN project_creator[project_id] ELSE None

add_owner_to_project(project_id, user_id) ==
    IF <<project_id, user_id>> \in project_owners
    THEN [success |-> FALSE, rows |-> project_owners]
    ELSE [success |-> TRUE, rows |-> project_owners \cup {<<project_id, user_id>>}]

\* variant: the last-owner test is off by one
remove_owner_from_project_off_by_one(project_id, user_id) ==
    LET owner_count == Cardinality({r \in project_owners : r[1] = project_id})
    IN  IF owner_count < 1
        THEN [success |-> FALSE, message |-> "last_owner", rows |-> project_owners]
        ELSE IF <<project_id, user_id>> \notin project_owners
        THEN [success |-> FALSE, message |-> "not_an_owner", rows |-> project_owners]
        ELSE [success |-> TRUE, message |-> "removed",
              rows |-> project_owners \ {<<project_id, user_id>>}]

\* variant: membership is tested before the owner count
remove_owner_from_project_membership_first(project_id, user_id) ==
    LET owner_count == Cardinality({r \in project_owners : r[1] = project_id})
    IN  IF <<project_id, user_id>> \notin project_owners
        THEN [success |-> FALSE, message |-> "not_an_owner", rows |-> project_owners]
        ELSE IF owner_count <= 1
        THEN [success |-> FALSE, message |-> "last_owner", rows |-> project_owners]
        ELSE [success |-> TRUE, message |-> "removed",
              rows |-> project_owners \ {<<project_id, user_id>>}]

remove_owner_from_project(project_id, user_id) ==
    LET owner_count == Cardinality({r \in project_owners : r[1] = project_id})
    IN  IF owner_count <= 1
        THEN [success |-> FALSE, message |-> "last_owner", rows |-> project_owners]
        ELSE IF <<project_id, user_id>> \notin project_owners
        THEN [success |-> FALSE, message |-> "not_an_owner", rows |-> project_owners]
        ELSE [success |-> TRUE, message |-> "removed",
              rows |-> project_owners \ {<<project_id, user_id>>}]

\* --------------------------------------------------- db_notifications.py
NewNotifications(recipients, project_id, type) ==
    {[id |-> notification_seq + Cardinality({w \in recipients : w <= u}),
      user_id |-> u, project_id |-> project_id, type |-> type, is_read |-> FALSE]
        : u \in recipients}

\* variant: exclude_user_id is ignored
create_notification_for_project_owners_all(project_id, type, exclude_user_id) ==
    NewNotifications(OwnersOf(project_id), project_id, type)

create_notification_for_project_owners(project_id, type, exclude_user_id) ==
    NewNotifications({u \in OwnersOf(project_id) : u # exclude_user_id}, project_id, type)

\* The notifications table is unbounded in the program; the model stops
\* issuing a request whose fan-out would exceed MaxNotifications rows.
NotificationRoom(new) == notification_seq + Cardinality(new) <= MaxNotifications

Notify(new) ==
    /\ notifications' = notifications \cup new
    /\ notification_seq' = notification_seq + Cardinality(new)

\* variant: the notification is not matched against the user
mark_notification_as_read_any_user(notification_id, user_id) ==
    LET found == \E n \in notifications : n.id = notification_id
    IN  [success |-> found,
         rows |-> IF ~found THEN notifications
                  ELSE {IF n.id = notification_id
                        THEN [n EXCEPT !.is_read = TRUE] ELSE n : n \in notifications}]

mark_notification_as_read(notification_id, user_id) ==
    LET found == \E n \in notifications : n.id = notification_id /\ n.user_id = user_id
    IN  [success |-> found,
         rows |-> IF ~found THEN notifications
                  ELSE {IF n.id = notification_id /\ n.user_id = user_id
                        THEN [n EXCEPT !.is_read = TRUE] ELSE n : n \in notifications}]

\* variant: the read flag of the user's notifications is flipped
mark_all_notifications_as_read_toggling(user_id) ==
    {IF n.user_id = user_id THEN [n EXCEPT !.is_read = ~n.is_read] ELSE n : n \in notifications}

mark_all_notifications_as_read(user_id) ==
    {IF n.user_id = user_id /\ ~n.is_read THEN [n EXCEPT !.is_read = TRUE] ELSE n
        : n \in notifications}

get_user_notifications(user_id, unread_only) ==
    IF unread_only
    THEN {n \in notifications : n.user_id = user_id /\ ~n.is_read}
    ELSE {n \in notifications : n.user_id = user_id}

get_unread_count(user_id) ==
    Cardinality({n \in notifications : n.user_id = user_id /\ ~n.is_read})

delete_notification(notification_id, user_id) ==
    LET found == \E n \in notifications : n.id = notification_id /\ n.user_id = user_id
    IN  [success |-> found,
         rows |-> IF ~found THEN notifications
                  ELSE {n \in notifications : ~(n.id = notification_id /\ n.user_id = user_id)}]

\* -------------------------------------------------------- db_projects.py
get_project_by_id(project_id) == project_id \in DOMAIN projects

create_project(creator_user_id) ==
    LET project_id == project_seq + 1
    IN  IF <<project_id, creator_user_id>> \in project_owners
        THEN [success |-> FALSE, id |-> None, projects |-> projects, rows |-> project_owners]
        ELSE [success |-> TRUE, id |-> project_id,
              projects |-> projects @@ (project_id :> [approved |-> FALSE, file_path |-> 0]),
              rows |-> project_owners \cup {<<project_id, creator_user_id>>}]

update_project(table, project_id, file_path) ==
    IF project_id \in DOMAIN table
    THEN [table EXCEPT ![project_id].file_path = file_path]
    ELSE table

approve_project(table, project_id) ==
    IF project_id \in DOMAIN table
    THEN [table EXCEPT ![project_id].approved = TRUE]
    ELSE table

\* variant: the approval flag is left as it is
unapprove_project_noop(table, project_id) == table

unapprove_project(table, project_id) ==
    IF project_id \in DOMAIN table
    THEN [table EXCEPT ![project_id].approved = FALSE]
    ELSE table

delete_project(table, project_id) ==
    [q \in DOMAIN table \ {project_id} |-> table[q]]

\* ------------------------------------------------------- db_ratings.py
\* SELECT id FROM project_ratings WHERE project_id = ? AND user_id = ?
rate_project_select(project_id, user_id) ==
    \E r \in project_ratings : r.project_id = project_id /\ r.user_id = user_id

\* variant: the table has no UNIQUE(project_id, user_id) constraint
rate_project_write_no_unique(existing, project_id, user_id, rating) ==
    [success |-> TRUE,
     rows |-> IF existing
              THEN {IF r.project_id = project_id /\ r.user_id = user_id
                    THEN [r EXCEPT !.rating = rating] ELSE r : r \in project_ratings}
              ELSE project_ratings \cup
                   {[project_id |-> project_id, user_id |-> user_id, rating |-> rating]}]

\* The UPDATE or INSERT that follows the SELECT, and the commit.  An INSERT
\* of a pair that is already stored breaks UNIQUE(project_id, user_id); the
\* exception is caught and reported as a failure.
rate_project_write(existing, project_id, user_id, rating) ==
    IF existing
    THEN [success |-> TRUE,
          rows |-> {IF r.project_id = project_id /\ r.user_id = user_id
                    THEN [r EXCEPT !.rating = rating] ELSE r : r \in project_ratings}]
    ELSE IF \E r \in project_ratings : r.project_id = project_id /\ r.user_id = user_id
    THEN [success |-> FALSE, rows |-> project_ratings]
    ELSE [success |-> TRUE,
          rows |-> project_ratings \cup
                   {[project_id |-> project_id, user_id |-> user_id, rating |-> rating]}]

rate_project(project_id, user_id, rating) ==
    IF rating < MIN_RATING \/ rating > MAX_RATING
    THEN [success |-> FALSE, rows |-> project_ratings]
    ELSE rate_project_write(rate_project_select(project_id, user_id),
                            project_id, user_id, rating)

get_user_rating(project_id, user_id) ==
    LET rows == {r \in project_ratings : r.project_id = project_id /\ r.user_id = user_id}
    IN  IF rows = {} THEN None ELSE (CHOOSE r \in rows : TRUE).rating

delete_rating(project_id, user_id) ==
    LET rows == {r \in project_ratings : r.project_id = project_id /\ r.user_id = user_id}
    IN  [success |-> rows # {}, rows |-> project_ratings \ rows]

\* variant: the quotient is cut to one decimal place, not rounded
RoundTenths_truncating(total, count) == (10 * total) \div count

\* round(x, 1) of the quotient total / count, in tenths: Python rounds the
\* binary value to nearest and an exact tie to the even tenth.
RoundTenths(total, count) ==
    LET q == (10 * total) \div count
        r == (10 * total) % count
    IN  IF 2 * r < count THEN q
        ELSE IF 2 * r > count THEN q + 1
        ELSE IF q % 2 = 0 THEN q ELSE q + 1

\* average is held in tenths (40 stands for 4.0)
get_project_rating(project_id) ==
    LET rows  == {r \in project_ratings : r.project_id = project_id}
        count == Cardinality(rows)
    IN  [average |-> IF count = 0 THEN 0 ELSE RoundTenths(SumRatings(rows), count),
         count |-> count]

\* ------------------------------------------------------------------ Init
Init ==
    /\ users = UserIds
    /\ admins = {1}
    /\ projects = <<>>
    /\ project_seq = 0
    /\ project_creator = <<>>
    /\ project_owners = {}
    /\ project_ratings = {}
    /\ notifications = {}
    /\ notification_seq = 0
    /\ uploads = {}
    /\ requests = EmptyBag
    /\ reports = {}
    /\ report_seq = 0
    /\ resp = Response("none", 0, "none")

\* ================================================================ handlers
\* Each handler below is one request served to completion.  actor is the
\* user id carried by the bearer token; token_required does not look the
\* user up, so the token of a deleted account is still accepted.

\* ------------------------------------------------------- api_projects.py
upload_project(actor, saved) ==
    LET created == create_project(actor)
        id      == created.id
    IN  /\ project_seq < NumProjects
        /\ IF ~created.success
           THEN /\ resp' = Response("upload_project", 400, "create_failed")
                /\ UNCHANGED <<projects, project_seq, project_creator, project_owners, uploads>>
           ELSE /\ project_seq' = id
                /\ project_owners' = created.rows
                /\ IF saved
                   THEN /\ projects' = update_project(created.projects, id, 1)
                        /\ project_creator' = project_creator @@ (id :> actor)
                        /\ uploads' = uploads \cup {<<id, 1>>}
                        /\ resp' = Response("upload_project", 201, "uploaded")
                   ELSE /\ projects' = delete_project(created.projects, id)
                        /\ UNCHANGED <<project_creator, uploads>>
                        /\ resp' = Response("upload_project", 500, "upload_error")
        /\ UNCHANGED <<users, admins, project_ratings, notifications, notification_seq, requests, reports, report_seq>>

\* variant: the admin test is missing
approve_project_endpoint_any_user(actor, project_id) ==
    LET new == create_notification_for_project_owners(project_id, "project_approved", actor)
    IN  /\ IF ~get_project_by_id(project_id)
           THEN /\ resp' = Response("approve_project", 404, "not_found")
                /\ UNCHANGED <<projects, notifications, notification_seq>>
           ELSE /\ NotificationRoom(new)
                /\ projects' = approve_project(projects, project_id)
                /\ Notify(new)
                /\ resp' = Response("approve_project", 200, "approved")
        /\ UNCHANGED <<users, admins, project_seq, project_creator, project_owners,
                       project_ratings, uploads, requests, reports, report_seq>>

approve_project_endpoint(actor, project_id) ==
    LET new == create_notification_for_project_owners(project_id, "project_approved", actor)
    IN  /\ IF ~is_admin(actor)
           THEN /\ resp' = Response("approve_project", 403, "admin_required")
                /\ UNCHANGED <<projects, notifications, notification_seq>>
           ELSE IF ~get_project_by_id(project_id)
           THEN /\ resp' = Response("approve_project", 404, "not_found")
                /\ UNCHANGED <<projects, notifications, notification_seq>>
           ELSE /\ NotificationRoom(new)
                /\ projects' = approve_project(projects, project_id)
                /\ Notify(new)
                /\ resp' = Response("approve_project", 200, "approved")
        /\ UNCHANGED <<users, admins, project_seq, project_creator, project_owners,
                       project_ratings, uploads, requests, reports, report_seq>>

\* variant: a failed fan-out undoes the approval and is reported
approve_project_endpoint_rolled_back(actor, project_id) ==
    /\ IF ~is_admin(actor)
       THEN resp' = Response("approve_project", 403, "admin_required")
       ELSE IF ~get_project_by_id(project_id)
       THEN resp' = Response("approve_project", 404, "not_found")
       ELSE resp' = Response("approve_project", 500, "fanout_error")
    /\ UNCHANGED <<users, admins, projects, project_seq, project_creator, project_owners,
                   project_ratings, notifications, notification_seq, uploads, requests,
                   reports, report_seq>>

\* approve_project_endpoint when an INSERT of the owner fan-out raises:
\* create_notification_for_project_owners catches the exception before its
\* commit and returns success False, which the handler does not look at.
approve_project_endpoint_fanout_failed(actor, project_id) ==
    /\ IF ~is_admin(actor)
       THEN /\ resp' = Response("approve_project", 403, "admin_required")
            /\ UNCHANGED projects
       ELSE IF ~get_project_by_id(project_id)
       THEN /\ resp' = Response("approve_project", 404, "not_found")
            /\ UNCHANGED projects
       ELSE /\ projects' = approve_project(projects, project_id)
            /\ resp' = Response("approve_project", 200, "approved")
    /\ UNCHANGED <<users, admins, project_seq, project_creator, project_owners,
                   project_ratings, notifications, notification_seq, uploads, requests,
                   reports, report_seq>>

\* variant: an unapproved project is refused, not hidden
get_project_forbidden(caller, project_id) ==
    LET admin == caller # None /\ is_admin(caller)
        owner == caller # None /\ is_project_owner(project_id, caller)
    IN  /\ IF ~get_project_by_id(project_id)
           THEN resp' = Response("get_project", 404, "not_found")
           ELSE IF ~projects[project_id].approved /\ ~(admin \/ owner)
           THEN resp' = Response("get_project", 403, "forbidden")
           ELSE resp' = Response("get_project", 200, "project")
        /\ UNCHANGED <<users, admins, projects, project_seq, project_creator, project_owners,
                       project_ratings, notifications, notification_seq, uploads, requests,
                       reports, report_seq>>

\* caller: the user id of a valid bearer token, or None when the request
\* carries no Authorization header or a token that does not decode
get_project(caller, project_id) ==
    LET admin == caller # None /\ is_admin(caller)
        owner == caller # None /\ is_project_owner(project_id, caller)
    IN  /\ IF ~get_project_by_id(project_id)
           THEN resp' = Response("get_project", 404, "not_found")
           ELSE IF ~projects[project_id].approved /\ ~(admin \/ owner)
           THEN resp' = Response("get_project", 404, "not_found")
           ELSE resp' = Response("get_project", 200, "project")
        /\ UNCHANGED <<users, admins, projects, project_seq, project_creator, project_owners,
                       project_ratings, notifications, notification_seq, uploads, requests,
                       reports, report_seq>>

\* variant: an owner's edit is announced to the other owners, not to the admins
update_project_endpoint_owners_only(actor, project_id, has_file, saved) ==
    LET admin    == is_admin(actor)
        owner    == is_project_owner(project_id, actor)
        old_path == projects[project_id].file_path
        new_path == old_path + 1
        new      == IF admin /\ ~owner
                    THEN create_notification_for_project_owners(project_id, "project_edited", actor)
                    ELSE IF owner /\ ~admin
                    THEN create_notification_for_project_owners(project_id, "project_edited", actor)
                    ELSE {}
    IN  /\ IF ~get_project_by_id(project_id)
           THEN /\ resp' = Response("update_project", 404, "not_found")
                /\ UNCHANGED <<projects, uploads, notifications, notification_seq>>
           ELSE IF ~owner /\ ~admin
           THEN /\ resp' = Response("update_project", 403, "no_permission")
                /\ UNCHANGED <<projects, uploads, notifications, notification_seq>>
           ELSE IF has_file /\ ~saved
           THEN /\ uploads' = uploads \ {<<project_id, old_path>>}
                /\ resp' = Response("update_project", 500, "upload_error")
                /\ UNCHANGED <<projects, notifications, notification_seq>>
           ELSE /\ NotificationRoom(new)
                /\ IF has_file
                   THEN /\ old_path < MaxFiles
                        /\ uploads' = (uploads \ {<<project_id, old_path>>})
                                        \cup {<<project_id, new_path>>}
                        /\ projects' = unapprove_project(
                                          update_project(projects, project_id, new_path),
                                          project_id)
                   ELSE UNCHANGED <<projects, uploads>>
                /\ Notify(new)
                /\ resp' = Response("update_project", 200,
                                    IF has_file THEN "file_replaced" ELSE "updated")
        /\ UNCHANGED <<users, admins, project_seq, project_creator, project_owners,
                       project_ratings, requests, reports, report_seq>>

download_project(caller, project_id) ==
    LET admin == caller # None /\ is_admin(caller)
        owner == caller # None /\ is_project_owner(project_id, caller)
    IN  /\ IF ~get_project_by_id(project_id)
           THEN resp' = Response("download_project", 404, "not_found")
           ELSE IF ~projects[project_id].approved /\ ~(admin \/ owner)
           THEN resp' = Response("download_project", 403, "not_available")
           ELSE IF <<project_id, projects[project_id].file_path>> \notin uploads
           THEN resp' = Response("download_project", 404, "file_not_found")
           ELSE resp' = Response("download_project", 200, "file")
        /\ UNCHANGED <<users, admins, projects, project_seq, project_creator, project_owners,
                       project_ratings, notifications, notification_seq, uploads, requests,
                       reports, report_seq>>

get_project_media_list(caller, project_id) ==
    LET admin == caller # None /\ is_admin(caller)
        owner == caller # None /\ is_project_owner(project_id, caller)
    IN  /\ IF ~get_project_by_id(project_id)
           THEN resp' = Response("get_project_media_list", 404, "not_found")
           ELSE IF ~projects[project_id].approved /\ ~(admin \/ owner)
           THEN resp' = Response("get_project_media_list", 404, "not_found")
           ELSE resp' = Response("get_project_media_list", 200, "media")
        /\ UNCHANGED <<users, admins, projects, project_seq, project_creator, project_owners,
                       project_ratings, notifications, notification_seq, uploads, requests,
                       reports, report_seq>>

\* has_file: the request carries an allowed replacement file; saved: file.save succeeds
update_project_endpoint(actor, project_id, has_file, saved) ==
    LET admin    == is_admin(actor)
        owner    == is_project_owner(project_id, actor)
        old_path == projects[project_id].file_path
        new_path == old_path + 1
        new      == IF admin /\ ~owner
                    THEN create_notification_for_project_owners(project_id, "project_edited", actor)
                    ELSE IF owner /\ ~admin
                    THEN NewNotifications(get_admin_user_ids, project_id, "project_edited")
                    ELSE {}
    IN  /\ IF ~get_project_by_id(project_id)
           THEN /\ resp' = Response("update_project", 404, "not_found")
                /\ UNCHANGED <<projects, uploads, notifications, notification_seq>>
           ELSE IF ~owner /\ ~admin
           THEN /\ resp' = Response("update_project", 403, "no_permission")
                /\ UNCHANGED <<projects, uploads, notifications, notification_seq>>
           ELSE IF has_file /\ ~saved
           THEN /\ uploads' = uploads \ {<<project_id, old_path>>}
                /\ resp' = Response("update_project", 500, "upload_error")
                /\ UNCHANGED <<projects, notifications, notification_seq>>
           ELSE /\ NotificationRoom(new)
                /\ IF has_file
                   THEN /\ old_path < MaxFiles
                        /\ uploads' = (uploads \ {<<project_id, old_path>>})
                                        \cup {<<project_id, new_path>>}
                        /\ projects' = unapprove_project(
                                          update_project(projects, project_id, new_path),
                                          project_id)
                   ELSE UNCHANGED <<projects, uploads>>
                /\ Notify(new)
                /\ resp' = Response("update_project", 200,
                                    IF has_file THEN "file_replaced" ELSE "updated")
        /\ UNCHANGED <<users, admins, project_seq, project_creator, project_owners,
                       project_ratings, requests, reports, report_seq>>

\* variant: any owner passes the permission test
delete_project_endpoint_any_owner(actor, project_id) ==
    LET admin   == is_admin(actor)
        creator == is_project_owner(project_id, actor)
        new     == create_notification_for_project_owners(project_id, "project_deleted", actor)
    IN  /\ IF ~get_project_by_id(project_id)
           THEN /\ resp' = Response("delete_project", 404, "not_found")
                /\ UNCHANGED <<projects, project_creator, uploads, notifications, notification_seq>>
           ELSE IF ~creator /\ ~admin
           THEN /\ resp' = Response("delete_project", 403, "no_permission")
                /\ UNCHANGED <<projects, project_creator, uploads, notifications, notification_seq>>
           ELSE /\ NotificationRoom(new)
                /\ Notify(new)
                /\ uploads' = uploads \ {<<project_id, projects[project_id].file_path>>}
                /\ projects' = delete_project(projects, project_id)
                /\ project_creator' = [q \in DOMAIN project_creator \ {project_id}
                                          |-> project_creator[q]]
                /\ resp' = Response("delete_project", 200, "deleted")
        /\ UNCHANGED <<users, admins, project_seq, project_owners, project_ratings, requests, reports, report_seq>>

\* variant: the deletion of the project row removes the project's notifications
delete_project_endpoint_cascading(actor, project_id) ==
    LET admin   == is_admin(actor)
        creator == get_project_creator(project_id) = actor
    IN  /\ IF ~get_project_by_id(project_id)
           THEN /\ resp' = Response("delete_project", 404, "not_found")
                /\ UNCHANGED <<projects, project_creator, uploads, notifications>>
           ELSE IF ~creator /\ ~admin
           THEN /\ resp' = Response("delete_project", 403, "no_permission")
                /\ UNCHANGED <<projects, project_creator, uploads, notifications>>
           ELSE /\ notifications' = {n \in notifications : n.project_id # project_id}
                /\ uploads' = uploads \ {<<project_id, projects[project_id].file_path>>}
                /\ projects' = delete_project(projects, project_id)
                /\ project_creator' = [q \in DOMAIN project_creator \ {project_id}
                                          |-> project_creator[q]]
                /\ resp' = Response("delete_project", 200, "deleted")
        /\ UNCHANGED <<users, admins, project_seq, project_owners, project_ratings,
                       notification_seq, requests, reports, report_seq>>

delete_project_endpoint(actor, project_id) ==
    LET admin   == is_admin(actor)
        creator == get_project_creator(project_id) = actor
        new     == create_notification_for_project_owners(project_id, "project_deleted", actor)
    IN  /\ IF ~get_project_by_id(project_id)
           THEN /\ resp' = Response("delete_project", 404, "not_found")
                /\ UNCHANGED <<projects, project_creator, uploads, notifications, notification_seq>>
           ELSE IF ~creator /\ ~admin
           THEN /\ resp' = Response("delete_project", 403, "no_permission")
                /\ UNCHANGED <<projects, project_creator, uploads, notifications, notification_seq>>
           ELSE /\ NotificationRoom(new)
                /\ Notify(new)
                /\ uploads' = uploads \ {<<project_id, projects[project_id].file_path>>}
                /\ projects' = delete_project(projects, project_id)
                /\ project_creator' = [q \in DOMAIN project_creator \ {project_id}
                                          |-> project_creator[q]]
                /\ resp' = Response("delete_project", 200, "deleted")
        /\ UNCHANGED <<users, admins, project_seq, project_owners, project_ratings, requests, reports, report_seq>>

add_project_owner(actor, project_id, new_owner) ==
    LET added == add_owner_to_project(project_id, new_owner)
    IN  /\ IF ~is_project_owner(project_id, actor) /\ ~is_admin(actor)
           THEN /\ resp' = Response("add_owner", 403, "no_permission")
                /\ UNCHANGED project_owners
           ELSE IF new_owner \notin users
           THEN /\ resp' = Response("add_owner", 404, "user_not_found")
                /\ UNCHANGED project_owners
           ELSE /\ project_owners' = added.rows
                /\ resp' = Response("add_owner", IF added.success THEN 201 ELSE 400,
                                    IF added.success THEN "added" ELSE "already_owner")
        /\ UNCHANGED <<users, admins, projects, project_seq, project_creator, project_ratings,
                       notifications, notification_seq, uploads, requests, reports, report_seq>>

\* variant: the creator-protection test is missing
remove_project_owner_unprotected(actor, project_id, user_id) ==
    LET removed == remove_owner_from_project(project_id, user_id)
    IN  /\ IF ~is_project_owner(project_id, actor) /\ ~is_admin(actor)
           THEN /\ resp' = Response("remove_owner", 403, "no_permission")
                /\ UNCHANGED project_owners
           ELSE /\ project_owners' = removed.rows
                /\ resp' = Response("remove_owner", IF removed.success THEN 200 ELSE 400,
                                    removed.message)
        /\ UNCHANGED <<users, admins, projects, project_seq, project_creator, project_ratings,
                       notifications, notification_seq, uploads, requests, reports, report_seq>>

remove_project_owner(actor, project_id, user_id) ==
    LET creator_id == get_project_creator(project_id)
        removed    == remove_owner_from_project(project_id, user_id)
    IN  /\ IF ~is_project_owner(project_id, actor) /\ ~is_admin(actor)
           THEN /\ resp' = Response("remove_owner", 403, "no_permission")
                /\ UNCHANGED project_owners
           ELSE IF creator_id # None /\ creator_id = user_id /\ actor # user_id /\ ~is_admin(actor)
           THEN /\ resp' = Response("remove_owner", 403, "cannot_remove_creator")
                /\ UNCHANGED project_owners
           ELSE /\ project_owners' = removed.rows
                /\ resp' = Response("remove_owner", IF removed.success THEN 200 ELSE 400,
                                    removed.message)
        /\ UNCHANGED <<users, admins, projects, project_seq, project_creator, project_ratings,
                       notifications, notification_seq, uploads, requests, reports, report_seq>>

\* variant: the approval test is missing
rate_project_endpoint_any_project(actor, project_id, rating) ==
    LET rated == rate_project(project_id, actor, rating)
        new   == create_notification_for_project_owners(project_id, "project_rated", actor)
    IN  /\ IF rating < MIN_RATING \/ rating > MAX_RATING
           THEN /\ resp' = Response("rate_project", 400, "invalid_rating")
                /\ UNCHANGED <<project_ratings, notifications, notification_seq>>
           ELSE IF ~get_project_by_id(project_id)
           THEN /\ resp' = Response("rate_project", 404, "not_found")
                /\ UNCHANGED <<project_ratings, notifications, notification_seq>>
           ELSE IF ~rated.success
           THEN /\ resp' = Response("rate_project", 400, "rating_error")
                /\ UNCHANGED <<project_ratings, notifications, notification_seq>>
           ELSE /\ project_ratings' = rated.rows
                /\ NotificationRoom(new)
                /\ Notify(new)
                /\ resp' = Response("rate_project", 200, "rated")
        /\ UNCHANGED <<users, admins, projects, project_seq, project_creator, project_owners,
                       uploads, requests, reports, report_seq>>

rate_project_endpoint(actor, project_id, rating) ==
    LET rated == rate_project(project_id, actor, rating)
        new   == create_notification_for_project_owners(project_id, "project_rated", actor)
    IN  /\ IF rating < MIN_RATING \/ rating > MAX_RATING
           THEN /\ resp' = Response("rate_project", 400, "invalid_rating")
                /\ UNCHANGED <<project_ratings, notifications, notification_seq>>
           ELSE IF ~get_project_by_id(project_id)
           THEN /\ resp' = Response("rate_project", 404, "not_found")
                /\ UNCHANGED <<project_ratings, notifications, notification_seq>>
           ELSE IF ~projects[project_id].approved
           THEN /\ resp' = Response("rate_project", 403, "not_approved")
                /\ UNCHANGED <<project_ratings, notifications, notification_seq>>
           ELSE IF ~rated.success
           THEN /\ resp' = Response("rate_project", 400, "rating_error")
                /\ UNCHANGED <<project_ratings, notifications, notification_seq>>
           ELSE /\ project_ratings' = rated.rows
                /\ NotificationRoom(new)
                /\ Notify(new)
                /\ resp' = Response("rate_project", 200, "rated")
        /\ UNCHANGED <<users, admins, projects, project_seq, project_creator, project_owners,
                       uploads, requests, reports, report_seq>>

delete_my_rating(actor, project_id) ==
    LET deleted == delete_rating(project_id, actor)
    IN  /\ project_ratings' = deleted.rows
        /\ resp' = Response("delete_rating", IF deleted.success THEN 200 ELSE 400,
                            IF deleted.success THEN "deleted" ELSE "rating_not_found")
        /\ UNCHANGED <<users, admins, projects, project_seq, project_creator, project_owners,
                       notifications, notification_seq, uploads, requests, reports, report_seq>>

\* ---------------------------------------------------------- api_users.py
\* password_ok: the outcome of database.verify_password on the supplied password
delete_account(actor, password_ok) ==
    LET deleted == delete_user(actor)
    IN  /\ IF is_admin(actor)
           THEN /\ resp' = Response("delete_account", 403, "admin_account")
                /\ UNCHANGED <<users, admins>>
           ELSE IF actor \notin users
           THEN /\ resp' = Response("delete_account", 404, "user_not_found")
                /\ UNCHANGED <<users, admins>>
           ELSE IF ~password_ok
           THEN /\ resp' = Response("delete_account", 401, "invalid_password")
                /\ UNCHANGED <<users, admins>>
           ELSE /\ users' = deleted.users
                /\ admins' = deleted.admins
                /\ resp' = Response("delete_account", IF deleted.success THEN 200 ELSE 500,
                                    IF deleted.success THEN "deleted" ELSE "user_not_found")
        /\ UNCHANGED <<projects, project_seq, project_creator, project_owners, project_ratings,
                       notifications, notification_seq, uploads, requests, reports, report_seq>>

admin_delete_user(actor, user_id) ==
    LET deleted == delete_user(user_id)
    IN  /\ IF ~is_admin(actor)
           THEN /\ resp' = Response("admin_delete_user", 403, "admin_required")
                /\ UNCHANGED <<users, admins>>
           ELSE IF actor = user_id
           THEN /\ resp' = Response("admin_delete_user", 400, "use_account_endpoint")
                /\ UNCHANGED <<users, admins>>
           ELSE IF is_admin(user_id)
           THEN /\ resp' = Response("admin_delete_user", 403, "cannot_delete_admin")
                /\ UNCHANGED <<users, admins>>
           ELSE /\ users' = deleted.users
                /\ admins' = deleted.admins
                /\ resp' = Response("admin_delete_user", IF deleted.success THEN 200 ELSE 400,
                                    IF deleted.success THEN "deleted" ELSE "user_not_found")
        /\ UNCHANGED <<projects, project_seq, project_creator, project_owners, project_ratings,
                       notifications, notification_seq, uploads, requests, reports, report_seq>>

\* admin: the value of the "admin" field of the request body (0 or 1)
admin_update_user(actor, user_id, admin) ==
    LET updated == update_user(user_id, admin)
    IN  /\ IF ~is_admin(actor)
           THEN /\ resp' = Response("admin_update_user", 403, "admin_required")
                /\ UNCHANGED admins
           ELSE /\ admins' = updated.admins
                /\ resp' = Response("admin_update_user", IF updated.success THEN 200 ELSE 400,
                                    IF updated.success THEN "updated" ELSE "user_not_found")
        /\ UNCHANGED <<users, projects, project_seq, project_creator, project_owners,
                       project_ratings, notifications, notification_seq, uploads, requests, reports, report_seq>>

\* ---------------------------------------------------- api_notifications.py
mark_notification_read(actor, notification_id) ==
    LET marked == mark_notification_as_read(notification_id, actor)
    IN  /\ notifications' = marked.rows
        /\ resp' = Response("mark_notification_read", IF marked.success THEN 200 ELSE 400,
                            IF marked.success THEN "marked" ELSE "not_found_or_denied")
        /\ UNCHANGED <<users, admins, projects, project_seq, project_creator, project_owners,
                       project_ratings, notification_seq, uploads, requests, reports,
                       report_seq>>

mark_all_notifications_read(actor) ==
    /\ notifications' = mark_all_notifications_as_read(actor)
    /\ resp' = Response("mark_all_notifications_read", 200, "all_marked")
    /\ UNCHANGED <<users, admins, projects, project_seq, project_creator, project_owners,
                   project_ratings, notification_seq, uploads, requests, reports,
                   report_seq>>

\* variant: any user may delete any notification
delete_notification_endpoint_any_user(actor, notification_id) ==
    /\ notifications' = {n \in notifications : n.id # notification_id}
    /\ resp' = Response("delete_notification", 200, "deleted")
    /\ UNCHANGED <<users, admins, projects, project_seq, project_creator, project_owners,
                   project_ratings, notification_seq, uploads, requests, reports,
                   report_seq>>

delete_notification_endpoint(actor, notification_id) ==
    LET deleted == delete_notification(notification_id, actor)
    IN  /\ notifications' = deleted.rows
        /\ resp' = Response("delete_notification", IF deleted.success THEN 200 ELSE 400,
                            IF deleted.success THEN "deleted" ELSE "not_found_or_denied")
        /\ UNCHANGED <<users, admins, projects, project_seq, project_creator, project_owners,
                       project_ratings, notification_seq, uploads, requests, reports,
                       report_seq>>

\* ------------------------------------------------------------ JSON values
\* A target id of a report request is what request.get_json() gives for the
\* key: null (also when the key is missing), an integer, or a string;
\* JsonStr(n) is the decimal text of n.
JsonNull == [kind |-> "null", val |-> 0]
JsonInt(n) == [kind |-> "int", val |-> n]
JsonStr(n) == [kind |-> "str", val |-> n]
JsonIds(S) == {JsonNull} \cup {JsonInt(n) : n \in S} \cup {JsonStr(n) : n \in S}

\* Python truth value: None and 0 are false, a non-empty string is true
Truthy(v) == (v.kind = "int" /\ v.val # 0) \/ v.kind = "str"

\* Python v == n for an int n: a str is never equal to an int
EqualsInt(v, n) == v.kind = "int" /\ v.val = n

\* SQL v IS NOT NULL
IsNotNull(v) == v.kind # "null"

\* value kept by a column of INTEGER affinity: decimal text becomes an integer
Stored(v) == IF v.kind = "str" THEN JsonInt(v.val) ELSE v

\* notifications.project_id of a report notification; None stands for NULL
NotificationProject(v) == IF IsNotNull(v) THEN Stored(v).val ELSE None

\* --------------------------------------------------------- db_reports.py
\* admin_notes: NULL or a text
NoNotes == "NULL"
AdminNotes == {NoNotes, "warned"}
ReportIds == 1..MaxReports
\* values of datetime.now()
Stamps == 1..MaxClock

create_report(reporter_id, reported_user_id, reported_project_id) ==
    IF ~Truthy(reported_user_id) /\ ~Truthy(reported_project_id)
    THEN [success |-> FALSE, message |-> "no_target", rows |-> reports]
    ELSE IF Truthy(reported_user_id) /\ Truthy(reported_project_id)
    THEN [success |-> FALSE, message |-> "both_targets", rows |-> reports]
    ELSE [success |-> TRUE, message |-> "submitted",
          rows |-> reports \cup {[id |-> report_seq + 1,
                                  reporter_id |-> reporter_id,
                                  reported_user_id |-> Stored(reported_user_id),
                                  reported_project_id |-> Stored(reported_project_id),
                                  status |-> "pending",
                                  admin_notes |-> NoNotes,
                                  resolved_by |-> None,
                                  resolved_at |-> None]}]

\* variant: moving back to pending clears the resolver and the time
update_report_status_clearing(report_id, status, admin_id, admin_notes, now) ==
    LET stamped(r) == [r EXCEPT !.status = status, !.admin_notes = admin_notes,
                                !.resolved_by = IF status = "pending" THEN None ELSE admin_id,
                                !.resolved_at = IF status = "pending" THEN None ELSE now]
        rowcount   == Cardinality({r \in reports : r.id = report_id})
    IN  [success |-> rowcount # 0,
         rows |-> {IF r.id = report_id THEN stamped(r) ELSE r : r \in reports}]

\* variant: stored notes are kept when the call supplies none
update_report_status_keeping_notes(report_id, status, admin_id, admin_notes, now) ==
    LET kept(r)    == IF admin_notes = NoNotes THEN r.admin_notes ELSE admin_notes
        stamped(r) == [r EXCEPT !.status = status, !.admin_notes = kept(r),
                                !.resolved_by = admin_id, !.resolved_at = now]
        plain(r)   == [r EXCEPT !.status = status, !.admin_notes = kept(r)]
        rowcount   == Cardinality({r \in reports : r.id = report_id})
    IN  [success |-> rowcount # 0,
         rows |-> {IF r.id # report_id THEN r
                   ELSE IF status = "resolved" \/ status = "dismissed" THEN stamped(r)
                   ELSE plain(r) : r \in reports}]

update_report_status(report_id, status, admin_id, admin_notes, now) ==
    LET stamped(r) == [r EXCEPT !.status = status, !.admin_notes = admin_notes,
                                !.resolved_by = admin_id, !.resolved_at = now]
        plain(r)   == [r EXCEPT !.status = status, !.admin_notes = admin_notes]
        rowcount   == Cardinality({r \in reports : r.id = report_id})
    IN  [success |-> rowcount # 0,
         rows |-> {IF r.id # report_id THEN r
                   ELSE IF status = "resolved" \/ status = "dismissed" THEN stamped(r)
                   ELSE plain(r) : r \in reports}]

delete_report(report_id) ==
    [success |-> \E r \in reports : r.id = report_id,
     rows |-> {r \in reports : r.id # report_id}]

\* --------------------------------------------------------- api_reports.py
\* reason: "absent" when the body has no reason key, else the text given
Reasons == {"absent", " ", "spam"}
strip(reason) == IF reason = " " THEN "" ELSE reason

submit_report(actor, reason, reported_user_id, reported_project_id) ==
    LET created == create_report(actor, reported_user_id, reported_project_id)
        new     == NewNotifications(get_admin_user_ids,
                                    NotificationProject(reported_project_id), "report")
    IN  /\ IF reason = "absent"
           THEN /\ resp' = Response("submit_report", 400, "reason_required")
                /\ UNCHANGED <<reports, report_seq, notifications, notification_seq>>
           ELSE IF strip(reason) = ""
           THEN /\ resp' = Response("submit_report", 400, "reason_empty")
                /\ UNCHANGED <<reports, report_seq, notifications, notification_seq>>
           ELSE IF ~Truthy(reported_user_id) /\ ~Truthy(reported_project_id)
           THEN /\ resp' = Response("submit_report", 400, "no_target")
                /\ UNCHANGED <<reports, report_seq, notifications, notification_seq>>
           ELSE IF Truthy(reported_user_id) /\ EqualsInt(reported_user_id, actor)
           THEN /\ resp' = Response("submit_report", 400, "self_report")
                /\ UNCHANGED <<reports, report_seq, notifications, notification_seq>>
           ELSE IF ~created.success
           THEN /\ resp' = Response("submit_report", 400, created.message)
                /\ UNCHANGED <<reports, report_seq, notifications, notification_seq>>
           ELSE /\ report_seq < MaxReports
                /\ NotificationRoom(new)
                /\ reports' = created.rows
                /\ report_seq' = report_seq + 1
                /\ Notify(new)
                /\ resp' = Response("submit_report", 201, "submitted")
        /\ UNCHANGED <<users, admins, projects, project_seq, project_creator, project_owners,
                       project_ratings, uploads, requests>>

\* variant: the status value is not validated
update_report_any_status(actor, report_id, status, admin_notes, now) ==
    LET updated == update_report_status(report_id, status, actor, admin_notes, now)
    IN  /\ IF ~is_admin(actor)
           THEN /\ resp' = Response("update_report", 403, "admin_required")
                /\ UNCHANGED reports
           ELSE IF status = "absent"
           THEN /\ resp' = Response("update_report", 400, "status_required")
                /\ UNCHANGED reports
           ELSE /\ reports' = updated.rows
                /\ resp' = Response("update_report", IF updated.success THEN 200 ELSE 400,
                                    IF updated.success THEN "updated" ELSE "report_not_found")
        /\ UNCHANGED <<users, admins, projects, project_seq, project_creator, project_owners,
                       project_ratings, notifications, notification_seq, uploads, requests,
                       report_seq>>

\* variant: the reporter may update the own report
update_report_by_reporter(actor, report_id, status, admin_notes, now) ==
    LET updated  == update_report_status(report_id, status, actor, admin_notes, now)
        reporter == \E r \in reports : r.id = report_id /\ r.reporter_id = actor
    IN  /\ IF ~is_admin(actor) /\ ~reporter
           THEN /\ resp' = Response("update_report", 403, "admin_required")
                /\ UNCHANGED reports
           ELSE IF status = "absent"
           THEN /\ resp' = Response("update_report", 400, "status_required")
                /\ UNCHANGED reports
           ELSE IF status \notin {"pending", "resolved", "dismissed"}
           THEN /\ resp' = Response("update_report", 400, "invalid_status")
                /\ UNCHANGED reports
           ELSE /\ reports' = updated.rows
                /\ resp' = Response("update_report", IF updated.success THEN 200 ELSE 400,
                                    IF updated.success THEN "updated" ELSE "report_not_found")
        /\ UNCHANGED <<users, admins, projects, project_seq, project_creator, project_owners,
                       project_ratings, notifications, notification_seq, uploads, requests,
                       report_seq>>

\* status: "absent" when the body has no status key, else the value given
update_report(actor, report_id, status, admin_notes, now) ==
    LET updated == update_report_status(report_id, status, actor, admin_notes, now)
    IN  /\ IF ~is_admin(actor)
           THEN /\ resp' = Response("update_report", 403, "admin_required")
                /\ UNCHANGED reports
           ELSE IF status = "absent"
           THEN /\ resp' = Response("update_report", 400, "status_required")
                /\ UNCHANGED reports
           ELSE IF status \notin {"pending", "resolved", "dismissed"}
           THEN /\ resp' = Response("update_report", 400, "invalid_status")
                /\ UNCHANGED reports
           ELSE /\ reports' = updated.rows
                /\ resp' = Response("update_report", IF updated.success THEN 200 ELSE 400,
                                    IF updated.success THEN "updated" ELSE "report_not_found")
        /\ UNCHANGED <<users, admins, projects, project_seq, project_creator, project_owners,
                       project_ratings, notifications, notification_seq, uploads, requests,
                       report_seq>>

delete_report_endpoint(actor, report_id) ==
    LET deleted == delete_report(report_id)
    IN  /\ IF ~is_admin(actor)
           THEN /\ resp' = Response("delete_report", 403, "admin_required")
                /\ UNCHANGED reports
           ELSE /\ reports' = deleted.rows
                /\ resp' = Response("delete_report", IF deleted.success THEN 200 ELSE 400,
                                    IF deleted.success THEN "deleted" ELSE "report_not_found")
        /\ UNCHANGED <<users, admins, projects, project_seq, project_creator, project_owners,
                       project_ratings, notifications, notification_seq, uploads, requests,
                       report_seq>>

\* ------------------------------------------- requests served concurrently
\* The development server serves each request on its own thread, and every
\* database function opens its own connection.  A SELECT runs outside any
\* transaction and the write that follows opens one, so another request's
\* statements may be served between the two.  requests is the bag of the
\* requests that are waiting between two of their statements, each with the
\* position its thread has reached; a request served by one of the handlers
\* above ran without another request's statement in between.
Accept(req) == requests (+) SetToBag({req})
Finish(req) == requests (-) SetToBag({req})
Advance(req, next) == Accept(next) (-) SetToBag({req})
InFlight == BagToSet(requests)

\* remove_project_owner up to the call of remove_owner_from_project
remove_project_owner_begin(actor, project_id, user_id) ==
    LET creator_id == get_project_creator(project_id)
    IN  /\ BagCardinality(requests) < NumRequests
        /\ IF ~is_project_owner(project_id, actor) /\ ~is_admin(actor)
           THEN /\ resp' = Response("remove_owner", 403, "no_permission")
                /\ UNCHANGED requests
           ELSE IF creator_id # None /\ creator_id = user_id /\ actor # user_id /\ ~is_admin(actor)
           THEN /\ resp' = Response("remove_owner", 403, "cannot_remove_creator")
                /\ UNCHANGED requests
           ELSE /\ requests' = Accept([pc |-> "count", actor |-> actor,
                                       project_id |-> project_id, user_id |-> user_id])
                /\ UNCHANGED resp
        /\ UNCHANGED <<users, admins, projects, project_seq, project_creator, project_owners,
                       project_ratings, notifications, notification_seq, uploads, reports, report_seq>>

\* SELECT COUNT(*) FROM project_owners WHERE project_id = ?, and the test of it
remove_owner_from_project_count(req) ==
    LET owner_count == Cardinality(OwnersOf(req.project_id))
    IN  /\ req \in InFlight
        /\ req.pc = "count"
        /\ IF owner_count <= 1
           THEN /\ resp' = Response("remove_owner", 400, "last_owner")
                /\ requests' = Finish(req)
           ELSE /\ requests' = Advance(req, [req EXCEPT !.pc = "delete"])
                /\ UNCHANGED resp
        /\ UNCHANGED <<users, admins, projects, project_seq, project_creator, project_owners,
                       project_ratings, notifications, notification_seq, uploads, reports, report_seq>>

\* DELETE FROM project_owners WHERE project_id = ? AND user_id = ?, the commit
\* and the answer
remove_owner_from_project_delete(req) ==
    LET row      == <<req.project_id, req.user_id>>
        rowcount == IF row \in project_owners THEN 1 ELSE 0
    IN  /\ req \in InFlight
        /\ req.pc = "delete"
        /\ project_owners' = project_owners \ {row}
        /\ resp' = Response("remove_owner", IF rowcount = 0 THEN 400 ELSE 200,
                            IF rowcount = 0 THEN "not_an_owner" ELSE "removed")
        /\ requests' = Finish(req)
        /\ UNCHANGED <<users, admins, projects, project_seq, project_creator,
                       project_ratings, notifications, notification_seq, uploads, reports, report_seq>>

\* update_project (the handler) with a replacement file that is saved, up to
\* and including the commit of database.update_project(file_path, ...)
update_project_replace(actor, project_id) ==
    LET admin    == is_admin(actor)
        owner    == is_project_owner(project_id, actor)
        old_path == projects[project_id].file_path
        new_path == old_path + 1
    IN  /\ BagCardinality(requests) < NumRequests
        /\ IF ~get_project_by_id(project_id)
           THEN /\ resp' = Response("update_project", 404, "not_found")
                /\ UNCHANGED <<projects, uploads, requests>>
           ELSE IF ~owner /\ ~admin
           THEN /\ resp' = Response("update_project", 403, "no_permission")
                /\ UNCHANGED <<projects, uploads, requests>>
           ELSE /\ old_path < MaxFiles
                /\ uploads' = (uploads \ {<<project_id, old_path>>})
                                \cup {<<project_id, new_path>>}
                /\ projects' = update_project(projects, project_id, new_path)
                /\ requests' = Accept([pc |-> "unapprove", actor |-> actor,
                                       project_id |-> project_id, file_path |-> new_path,
                                       is_admin |-> admin, is_owner |-> owner])
                /\ UNCHANGED resp
        /\ UNCHANGED <<users, admins, project_seq, project_creator, project_owners,
                       project_ratings, notifications, notification_seq, reports, report_seq>>

\* database.unapprove_project, the notifications and the answer
update_project_unapprove(req) ==
    LET new == IF req.is_admin /\ ~req.is_owner
               THEN create_notification_for_project_owners(req.project_id, "project_edited",
                                                           req.actor)
               ELSE IF req.is_owner /\ ~req.is_admin
               THEN NewNotifications(get_admin_user_ids, req.project_id, "project_edited")
               ELSE {}
    IN  /\ req \in InFlight
        /\ req.pc = "unapprove"
        /\ NotificationRoom(new)
        /\ projects' = unapprove_project(projects, req.project_id)
        /\ Notify(new)
        /\ resp' = Response("update_project", 200, "file_replaced")
        /\ requests' = Finish(req)
        /\ UNCHANGED <<users, admins, project_seq, project_creator, project_owners,
                       project_ratings, uploads, reports, report_seq>>

\* rate_project (the handler) up to the call of database.rate_project
rate_project_begin(actor, project_id, rating) ==
    /\ BagCardinality(requests) < NumRequests
    /\ IF rating < MIN_RATING \/ rating > MAX_RATING
       THEN /\ resp' = Response("rate_project", 400, "invalid_rating")
            /\ UNCHANGED requests
       ELSE IF ~get_project_by_id(project_id)
       THEN /\ resp' = Response("rate_project", 404, "not_found")
            /\ UNCHANGED requests
       ELSE IF ~projects[project_id].approved
       THEN /\ resp' = Response("rate_project", 403, "not_approved")
            /\ UNCHANGED requests
       ELSE /\ requests' = Accept([pc |-> "select", actor |-> actor,
                                   project_id |-> project_id, rating |-> rating,
                                   existing |-> FALSE])
            /\ UNCHANGED resp
    /\ UNCHANGED <<users, admins, projects, project_seq, project_creator, project_owners,
                   project_ratings, notifications, notification_seq, uploads, reports, report_seq>>

\* the SELECT of database.rate_project; existing = cursor.fetchone()
rate_project_existing(req) ==
    /\ req \in InFlight
    /\ req.pc = "select"
    /\ requests' = Advance(req, [req EXCEPT !.pc = "write",
                                            !.existing = rate_project_select(req.project_id,
                                                                             req.actor)])
    /\ UNCHANGED <<users, admins, projects, project_seq, project_creator, project_owners,
                   project_ratings, notifications, notification_seq, uploads, resp, reports, report_seq>>

\* the UPDATE or INSERT of database.rate_project, the commit, the fan-out to
\* the owners and the answer
rate_project_commit(req) ==
    LET written == rate_project_write(req.existing, req.project_id, req.actor, req.rating)
        new     == create_notification_for_project_owners(req.project_id, "project_rated",
                                                          req.actor)
    IN  /\ req \in InFlight
        /\ req.pc = "write"
        /\ IF ~written.success
           THEN /\ resp' = Response("rate_project", 400, "rating_error")
                /\ UNCHANGED <<project_ratings, notifications, notification_seq>>
           ELSE /\ project_ratings' = written.rows
                /\ NotificationRoom(new)
                /\ Notify(new)
                /\ resp' = Response("rate_project", 200, "rated")
        /\ requests' = Finish(req)
        /\ UNCHANGED <<users, admins, projects, project_seq, project_creator, project_owners,
                       uploads, reports, report_seq>>

\* ========================================================== specifications
UploadProject  == \E a \in UserIds, saved \in BOOLEAN : upload_project(a, saved)
ApproveProject == \E a \in UserIds, p \in ProjectIds : approve_project_endpoint(a, p)
UpdateProject  == \E a \in UserIds, p \in ProjectIds, has_file \in BOOLEAN, saved \in BOOLEAN :
                      update_project_endpoint(a, p, has_file, saved)
DeleteProject  == \E a \in UserIds, p \in ProjectIds : delete_project_endpoint(a, p)
AddOwner       == \E a \in UserIds, p \in ProjectIds, u \in UserIds : add_project_owner(a, p, u)
RemoveOwner    == \E a \in UserIds, p \in ProjectIds, u \in UserIds : remove_project_owner(a, p, u)
RateProject    == \E a \in UserIds, p \in ProjectIds, v \in (MIN_RATING - 1)..(MAX_RATING + 1) :
                      rate_project_endpoint(a, p, v)
DeleteRating   == \E a \in UserIds, p \in ProjectIds : delete_my_rating(a, p)
DeleteAccount  == \E a \in UserIds, ok \in BOOLEAN : delete_account(a, ok)
AdminDeleteUser == \E a \in UserIds, u \in UserIds : admin_delete_user(a, u)
AdminUpdateUser == \E a \in UserIds, u \in UserIds, f \in {0, 1} : admin_update_user(a, u, f)

\* Ownership registry: projects are created and owners added and removed
\* while administrators are promoted and demoted.
NextOwnership == UploadProject \/ AddOwner \/ RemoveOwner \/ AdminUpdateUser
SpecOwnership == Init /\ [][NextOwnership]_vars

\* Accounts: the ownership registry together with account deletion.
NextAccounts ==
    UploadProject \/ AddOwner \/ RemoveOwner \/ DeleteAccount \/ AdminDeleteUser
SpecAccounts == Init /\ [][NextAccounts]_vars

\* Approval gate: creation, approval and update of projects under role changes.
UploadSaved   == \E a \in UserIds : upload_project(a, TRUE)
UpdateSaved   == \E a \in UserIds, p \in ProjectIds, has_file \in BOOLEAN :
                     update_project_endpoint(a, p, has_file, TRUE)
NextApproval == UploadSaved \/ ApproveProject \/ UpdateSaved \/ AdminUpdateUser
SpecApproval == Init /\ [][NextApproval]_vars

\* Deletion: a project is created, shared, approved, rated and deleted.
RateLowest    == \E a \in UserIds, p \in ProjectIds : rate_project_endpoint(a, p, MIN_RATING)
NextDeletion ==
    UploadSaved \/ AddOwner \/ ApproveProject \/ RateLowest \/ DeleteProject
SpecDeletion == Init /\ [][NextDeletion]_vars

\* Ratings: an approved project is rated with every value from just below
\* to just above the accepted range, and ratings are withdrawn.
NextRatings == UploadSaved \/ ApproveProject \/ RateProject \/ DeleteRating
SpecRatings == Init /\ [][NextRatings]_vars

\* Concurrent owner removal: removeOwner requests are served statement by
\* statement while projects are created and owners added and removed.
RemoveBegin  == \E a \in UserIds, p \in ProjectIds, u \in UserIds :
                    remove_project_owner_begin(a, p, u)
RemoveCount  == \E req \in InFlight : remove_owner_from_project_count(req)
RemoveDelete == \E req \in InFlight : remove_owner_from_project_delete(req)
NextRemoveRace ==
    UploadSaved \/ AddOwner \/ RemoveOwner \/ RemoveBegin \/ RemoveCount \/ RemoveDelete
SpecRemoveRace == Init /\ [][NextRemoveRace]_vars

\* Concurrent rating: rate requests are served statement by statement on an
\* approved project while other ratings are given and withdrawn.
RateSome     == \E a \in UserIds, p \in ProjectIds, v \in 0..MaxRatingInput :
                    rate_project_endpoint(a, p, v)
RateBegin    == \E a \in UserIds, p \in ProjectIds, v \in 0..MaxRatingInput :
                    rate_project_begin(a, p, v)
RateExisting == \E req \in InFlight : rate_project_existing(req)
RateCommit   == \E req \in InFlight : rate_project_commit(req)
NextRateRace ==
    \/ UploadSaved \/ ApproveProject \/ RateSome \/ DeleteRating
    \/ RateBegin \/ RateExisting \/ RateCommit
SpecRateRace == Init /\ [][NextRateRace]_vars


\* Review: a project is created, shared, read and approved, with the owner
\* fan-out of the approval succeeding or failing.
ApproveFanoutFailed == \E a \in UserIds, p \in ProjectIds :
                           approve_project_endpoint_fanout_failed(a, p)
GetProject == \E c \in UserIds \cup {None}, p \in ProjectIds : get_project(c, p)
NextReview ==
    UploadSaved \/ AddOwner \/ ApproveProject \/ ApproveFanoutFailed \/ GetProject
SpecReview == Init /\ [][NextReview]_vars

\* Report intake: reports are submitted with any body while administrators
\* are promoted and demoted.
SubmitReport == \E a \in UserIds, reason \in Reasons,
                   ru \in JsonIds(UserIds \cup {0}), rp \in JsonIds(ProjectIds \cup {0}) :
                    submit_report(a, reason, ru, rp)
NextReportSubmit == SubmitReport \/ AdminUpdateUser
SpecReportSubmit == Init /\ [][NextReportSubmit]_vars

\* Report intake with integer ids: the targets of a submitted report are
\* absent or integers.
SubmitIntegerIds == \E a \in UserIds, reason \in Reasons,
                       ru \in {JsonNull} \cup {JsonInt(u) : u \in UserIds},
                       rp \in {JsonNull} \cup {JsonInt(p) : p \in ProjectIds} :
                        submit_report(a, reason, ru, rp)
NextReportNotify == SubmitIntegerIds \/ AdminUpdateUser
SpecReportNotify == Init /\ [][NextReportNotify]_vars

\* Moderation: users who are not administrators report projects, users are
\* promoted to administrator, and administrators set the status of the
\* reports and delete them.
SubmitProjectReport == \E a \in UserIds \ admins, p \in ProjectIds :
                           submit_report(a, "spam", JsonNull, JsonInt(p))
PromoteUser == \E a \in UserIds, u \in UserIds : admin_update_user(a, u, 1)
StatusInputs == {"absent", "pending", "resolved", "dismissed", "closed"}
UpdateReport == \E a \in UserIds, r \in ReportIds, status \in StatusInputs,
                   notes \in AdminNotes, now \in Stamps :
                    update_report(a, r, status, notes, now)
DeleteReport == \E a \in UserIds, r \in ReportIds : delete_report_endpoint(a, r)
NextModeration == SubmitProjectReport \/ PromoteUser \/ UpdateReport \/ DeleteReport
SpecModeration == Init /\ [][NextModeration]_vars

\* Inbox: approvals of a shared project fill the owners' notifications,
\* which users mark as read and delete.
NotificationIds == 1..MaxNotifications
MarkRead == \E a \in UserIds, n \in NotificationIds : mark_notification_read(a, n)
DeleteNotification == \E a \in UserIds, n \in NotificationIds :
                          delete_notification_endpoint(a, n)
NextInbox == UploadSaved \/ AddOwner \/ ApproveProject \/ MarkRead \/ DeleteNotification
SpecInbox == Init /\ [][NextInbox]_vars

\* Notifications: the inbox with all of a user's notifications marked as
\* read at once.
MarkAllRead == \E a \in UserIds : mark_all_notifications_read(a)
NextNotifications ==
    UploadSaved \/ AddOwner \/ ApproveProject \/ MarkRead \/ MarkAllRead \/ DeleteNotification
SpecNotifications == Init /\ [][NextNotifications]_vars

\* Notification lifetime: the deletion of a shared project fills the owners'
\* notifications, which users mark as read and delete while accounts are
\* deleted.
NextNotificationLifetime ==
    \/ UploadSaved \/ AddOwner \/ DeleteProject \/ DeleteAccount
    \/ MarkRead \/ MarkAllRead \/ DeleteNotification
SpecNotificationLifetime == Init /\ [][NextNotificationLifetime]_vars

\* Editing: a shared project is edited, with and without a replacement
\* file, while users are promoted to administrator.
NextEditing == UploadSaved \/ AddOwner \/ UpdateSaved \/ PromoteUser
SpecEditing == Init /\ [][NextEditing]_vars

\* Reading: a project is created, shared and approved, and read by its
\* owners, by other users and by anonymous callers.
DownloadProject == \E c \in UserIds \cup {None}, p \in ProjectIds : download_project(c, p)
GetProjectMediaList == \E c \in UserIds \cup {None}, p \in ProjectIds :
                           get_project_media_list(c, p)
NextReading ==
    UploadSaved \/ AddOwner \/ ApproveProject \/ GetProject \/ DownloadProject
        \/ GetProjectMediaList
SpecReading == Init /\ [][NextReading]_vars

\* Replacement under reads: the file of a project is replaced, in one piece
\* or with other requests served between the two commits, while the project
\* is approved and read.
ReplaceBegin == \E a \in UserIds, p \in ProjectIds : update_project_replace(a, p)
ReplaceUnapprove == \E req \in InFlight : update_project_unapprove(req)
NextReplaceRace ==
    UploadSaved \/ ApproveProject \/ UpdateSaved \/ GetProject \/ ReplaceBegin
        \/ ReplaceUnapprove
SpecReplaceRace == Init /\ [][NextReplaceRace]_vars

\* Storage: files are uploaded, replaced and downloaded, and saving a file
\* may fail.
NextStorage == UploadProject \/ ApproveProject \/ UpdateProject \/ DownloadProject
SpecStorage == Init /\ [][NextStorage]_vars

\* ================================================================== claims
OwnerCount(p) == Cardinality(OwnersOf(p))

\* C1: every existing project has at least one owner row after any sequence
\* of addOwner and removeOwner requests, and a removeOwner issued while the
\* project has exactly one owner is rejected and leaves the owner rows as
\* they were.
C1_OwnerCountAtLeastOne ==
    /\ [](\A p \in DOMAIN projects : OwnerCount(p) >= 1)
    /\ [][\A a \in UserIds, u \in UserIds, p \in ProjectIds :
            (remove_project_owner(a, p, u) /\ p \in DOMAIN projects /\ OwnerCount(p) = 1)
                => (resp'.status # 200 /\ project_owners' = project_owners)]_vars

C1_Witness ==
    /\ resp.op = "remove_owner"
    /\ resp.message = "last_owner"
    /\ \E p \in DOMAIN projects : OwnerCount(p) = 1

C3_EveryProjectHasExistingOwner ==
    \A p \in DOMAIN projects : \E u \in OwnersOf(p) : u \in users

\* C5: a project is unapproved when it is created and when its file is
\* replaced; its approved flag turns true only in an approve request made
\* by a user who is an admin at that moment; an approve request by a
\* non-admin is answered 403 and leaves every project as it was.
C5_ApprovalOnlyByAdmin ==
    [][/\ \A p \in ProjectIds :
            (/\ p \in DOMAIN projects'
             /\ projects'[p].approved
             /\ ~(p \in DOMAIN projects /\ projects[p].approved))
                => \E a \in admins : approve_project_endpoint(a, p)
       /\ \A p \in DOMAIN projects' \ DOMAIN projects : ~projects'[p].approved
       /\ \A p \in DOMAIN projects \cap DOMAIN projects' :
            projects'[p].file_path # projects[p].file_path => ~projects'[p].approved
       /\ \A a \in UserIds \ admins, p \in ProjectIds :
            approve_project_endpoint(a, p)
                => (resp'.status = 403 /\ projects' = projects)]_vars

C5_Witness ==
    /\ resp.op = "approve_project"
    /\ resp.status = 200
    /\ \E p \in DOMAIN projects : projects[p].approved /\ projects[p].file_path > 1

\* C6: an update that replaces the file and answers 200 leaves the project
\* unapproved and pointing at the new file, whatever the approval state
\* before and whether the actor is an owner, an admin or both.
C6_FileReplaceUnapproves ==
    [][\A a \in UserIds, p \in DOMAIN projects :
        (update_project_endpoint(a, p, TRUE, TRUE) /\ resp'.status = 200)
            => /\ ~projects'[p].approved
               /\ projects'[p].file_path # projects[p].file_path
               /\ resp'.message = "file_replaced"]_vars

C6_Witness ==
    /\ resp.op = "update_project"
    /\ resp.message = "file_replaced"
    /\ \E p \in DOMAIN projects :
          /\ ~projects[p].approved
          /\ \E n \in notifications : n.project_id = p /\ n.type = "project_approved"

\* C7: after a delete request answered 200, no owner row, rating row or
\* notification row refers to the deleted project.
C7_DeleteRemovesRows ==
    [][\A a \in UserIds, p \in DOMAIN projects :
        (delete_project_endpoint(a, p) /\ resp'.status = 200)
            => /\ \A o \in project_owners' : o[1] # p
               /\ \A r \in project_ratings' : r.project_id # p
               /\ \A n \in notifications' : n.project_id # p]_vars

\* C8: a delete request is answered 200 only when the actor is the project's
\* creator or an admin; from anyone else it is answered 403 and the project,
\* its owner rows and its rating rows stay as they were.
C8_DeleteOnlyCreatorOrAdmin ==
    [][\A a \in UserIds, p \in DOMAIN projects :
        delete_project_endpoint(a, p) =>
            /\ resp'.status = 200 => (a = get_project_creator(p) \/ is_admin(a))
            /\ (a # get_project_creator(p) /\ ~is_admin(a))
                  => /\ resp'.status = 403
                     /\ projects' = projects
                     /\ project_owners' = project_owners
                     /\ project_ratings' = project_ratings]_vars

C8_Witness ==
    /\ resp.op = "delete_project"
    /\ resp.status = 403
    /\ \E p \in DOMAIN projects, a \in UserIds \ admins :
          /\ is_project_owner(p, a)
          /\ get_project_creator(p) # a
          /\ \E r \in project_ratings : r.project_id = p

\* C2: removeOwner requests served concurrently never leave an existing
\* project without an owner; of two concurrent removals of the two owners
\* of a project at most one is carried out.
C2_ConcurrentRemovesKeepAnOwner ==
    \A p \in DOMAIN projects : \E u \in UserIds : is_project_owner(p, u)

RatingRows(p, u) == {r \in project_ratings : r.project_id = p /\ r.user_id = u}

\* C9: at most one rating row is stored per (project, user), also when
\* rate requests of the same pair are served concurrently; a rate request
\* answered 200 leaves the pair's stored rating equal to the submitted
\* value (unless the row that its SELECT saw was withdrawn while the
\* request was in flight); and a pair's stored rating changes only in
\* the write of a rate request or in an unrate request of that pair.
C9_RatingUpsert ==
    /\ [](\A p \in ProjectIds, u \in UserIds : Cardinality(RatingRows(p, u)) <= 1)
    /\ [][(resp'.op = "rate_project" /\ resp'.status = 200) =>
            /\ \A a \in UserIds, p \in ProjectIds, v \in 0..MaxRatingInput :
                  rate_project_endpoint(a, p, v)
                      => get_user_rating(p, a)' = v
            /\ \A req \in InFlight :
                  rate_project_commit(req)
                      => \/ get_user_rating(req.project_id, req.actor)' = req.rating
                         \/ (req.existing /\ RatingRows(req.project_id, req.actor) = {})]_vars
    /\ [][project_ratings' # project_ratings =>
            \A p \in ProjectIds, u \in UserIds :
                get_user_rating(p, u)' # get_user_rating(p, u)
                    => \/ \E req \in InFlight :
                              /\ req.project_id = p
                              /\ req.actor = u
                              /\ rate_project_commit(req)
                       \/ \E v \in 0..MaxRatingInput : rate_project_endpoint(u, p, v)
                       \/ delete_my_rating(u, p)]_vars

C9_Witness ==
    /\ resp.op = "rate_project"
    /\ resp.status = 200
    /\ \E req \in InFlight :
          /\ req.pc = "write"
          /\ ~req.existing
          /\ RatingRows(req.project_id, req.actor) # {}
          /\ get_user_rating(req.project_id, req.actor) # req.rating

\* C10: the aggregate's count is the number of rating rows of the project
\* and its average is their arithmetic mean rounded to one decimal place;
\* both are 0 when the project has no rating; a rate request that changes
\* a user's existing rating leaves the count as it was.
C10_Aggregate ==
    /\ [](\A p \in ProjectIds :
            LET rows  == {r \in project_ratings : r.project_id = p}
                n     == Cardinality(rows)
                total == SumRatings(rows)
                agg   == get_project_rating(p)
                diff  == agg.average * n - 10 * total
            IN  /\ agg.count = n
                /\ n = 0 => agg.average = 0
                /\ n > 0 => (2 * diff <= n /\ -2 * diff <= n))
    /\ [][\A a \in UserIds, p \in ProjectIds, v \in MIN_RATING..MAX_RATING :
            (rate_project_endpoint(a, p, v) /\ resp'.status = 200 /\ RatingRows(p, a) # {})
                => /\ get_project_rating(p)'.count = get_project_rating(p).count
                   /\ get_user_rating(p, a)' = v]_vars

C10_Witness ==
    /\ resp.op = "rate_project"
    /\ resp.status = 200
    /\ \E p \in ProjectIds :
          /\ get_project_rating(p).count = 3
          /\ get_project_rating(p).average = 47

\* C11: a rate request on an existing project that is not approved is
\* answered 403 and a rate request with a value outside 1..5 is answered
\* 400; either way no rating row and no notification row is added or
\* changed.
C11_RateRejected ==
    [][resp'.op = "rate_project" =>
        \A a \in UserIds, p \in ProjectIds, v \in (MIN_RATING - 1)..(MAX_RATING + 1) :
            rate_project_endpoint(a, p, v) =>
                /\ (v >= MIN_RATING /\ v <= MAX_RATING /\ p \in DOMAIN projects
                        /\ ~projects[p].approved)
                      => /\ resp'.status = 403
                         /\ resp'.message = "not_approved"
                         /\ project_ratings' = project_ratings
                         /\ notifications' = notifications
                /\ (v < MIN_RATING \/ v > MAX_RATING)
                      => /\ resp'.status = 400
                         /\ project_ratings' = project_ratings
                         /\ notifications' = notifications]_vars

C11_Witness ==
    /\ resp.op = "rate_project"
    /\ resp.message = "not_approved"
    /\ \E p \in DOMAIN projects : ~projects[p].approved /\ RatingRows(p, get_project_creator(p)) = {}

ApprovedNotices(p, u) ==
    {n \in notifications : n.project_id = p /\ n.user_id = u /\ n.type = "project_approved"}

\* C12: an approve request answered 200 whose fan-out succeeds adds exactly
\* one unread project_approved notification of the project for every owner
\* other than the approving admin and none for anyone else, the approving
\* admin included when that admin is an owner; no stored notification is
\* changed or removed.
C12_ApproveFanout ==
    [][(resp'.op = "approve_project" /\ resp'.status = 200) =>
        \A a \in UserIds, p \in ProjectIds :
            approve_project_endpoint(a, p) =>
                LET new == notifications' \ notifications
                IN  /\ notifications \subseteq notifications'
                    /\ \A u \in UserIds :
                          Cardinality({n \in new : n.user_id = u})
                              = IF is_project_owner(p, u) /\ u # a THEN 1 ELSE 0
                    /\ \A n \in new :
                          /\ n.project_id = p
                          /\ n.type = "project_approved"
                          /\ ~n.is_read
                          /\ n.user_id \in UserIds]_vars

C12_Witness ==
    /\ resp.op = "approve_project"
    /\ resp.status = 200
    /\ \E p \in DOMAIN projects, c \in admins :
          /\ projects[p].approved
          /\ is_project_owner(p, c)
          /\ ApprovedNotices(p, c) = {}
          /\ Cardinality(OwnersOf(p)) = 3
          /\ \A u \in OwnersOf(p) \ {c} : Cardinality(ApprovedNotices(p, u)) = 1

\* C13: when the owner fan-out of an approve request fails after the
\* project was marked approved, the project stays approved, the request is
\* still answered 200 and no notification row is written.
C13_FanoutFailureKeepsApproval ==
    [][resp'.op = "approve_project" =>
        \A a \in UserIds, p \in DOMAIN projects :
            (approve_project_endpoint_fanout_failed(a, p) /\ is_admin(a))
                => /\ projects'[p].approved
                   /\ resp'.status = 200
                   /\ notifications' = notifications]_vars

C13_Witness ==
    /\ resp.op = "approve_project"
    /\ resp.status = 200
    /\ \E p \in DOMAIN projects, u \in UserIds \ admins :
          /\ projects[p].approved
          /\ is_project_owner(p, u)
          /\ ApprovedNotices(p, u) = {}

\* C14: a get of an unapproved project is answered 200 for one of its
\* owners and for an admin; for an anonymous caller and for a caller who is
\* neither, it is answered exactly as a get of a project id that does not
\* exist.
C14_UnapprovedHidden ==
    [][resp'.op = "get_project" =>
        \A c \in UserIds \cup {None}, p \in ProjectIds :
            get_project(c, p) =>
                /\ p \notin DOMAIN projects => resp' = Response("get_project", 404, "not_found")
                /\ (p \in DOMAIN projects /\ ~projects[p].approved) =>
                      IF c # None /\ (is_project_owner(p, c) \/ is_admin(c))
                      THEN resp'.status = 200
                      ELSE resp' = Response("get_project", 404, "not_found")]_vars

C14_Witness ==
    /\ resp = Response("get_project", 404, "not_found")
    /\ \A p \in ProjectIds : p \in DOMAIN projects /\ ~projects[p].approved

\* C15: every stored report has exactly one target: exactly one of its
\* reported user and its reported project is set.
C15_ExactlyOneTarget ==
    \A r \in reports : IsNotNull(r.reported_user_id) # IsNotNull(r.reported_project_id)

\* C16: no stored report has its reporter as its reported user.
C16_NoSelfReport ==
    \A r \in reports :
        ~(IsNotNull(r.reported_user_id) /\ r.reported_user_id.val = r.reporter_id)

ReportNotices(rows, u) == {n \in rows : n.user_id = u /\ n.type = "report"}

\* C17: a submit answered 201 stores one new report, with status pending,
\* and adds exactly one unread report notification for every user who is an
\* admin at that moment and none for anyone else; a submit answered
\* otherwise adds no report and no notification.
C17_ReportNotifiesAdmins ==
    [][resp'.op = "submit_report" =>
        LET new == notifications' \ notifications
        IN  IF resp'.status = 201
            THEN /\ \E r \in reports' \ reports :
                       /\ reports' = reports \cup {r}
                       /\ r.status = "pending"
                       /\ r.reporter_id \in UserIds
                 /\ notifications \subseteq notifications'
                 /\ \A n \in new : n.type = "report" /\ ~n.is_read
                 /\ \A u \in UserIds :
                       Cardinality(ReportNotices(new, u)) = IF is_admin(u) THEN 1 ELSE 0
            ELSE /\ reports' = reports
                 /\ notifications' = notifications]_vars

C17_Witness ==
    /\ resp = Response("submit_report", 201, "submitted")
    /\ Cardinality(admins) = 2
    /\ \E r \in reports : r.status = "pending"
    /\ \A u \in UserIds :
          Cardinality(ReportNotices(notifications, u)) = IF is_admin(u) THEN 1 ELSE 0

ReportStatuses == {"pending", "resolved", "dismissed"}

\* C18: every stored report has status pending, resolved or dismissed; an
\* admin's update with any other status value is answered 400 and leaves
\* the reports as they were; an admin's update of an existing report to any
\* of the three statuses, from any of the three, is answered 200 and stores
\* that status.
C18_StatusValid ==
    /\ \A r \in reports : r.status \in ReportStatuses
    /\ \A a \in admins, id \in ReportIds, notes \in AdminNotes, now \in Stamps :
          /\ \A status \in StatusInputs \ ReportStatuses :
                ~ENABLED (/\ update_report(a, id, status, notes, now)
                          /\ ~(resp'.status = 400 /\ reports' = reports))
          /\ \A status \in ReportStatuses :
                (\E r \in reports : r.id = id) =>
                    ~ENABLED (/\ update_report(a, id, status, notes, now)
                              /\ ~(/\ resp'.status = 200
                                   /\ \E r \in reports' : r.id = id /\ r.status = status))

C18_Witness ==
    /\ resp = Response("update_report", 400, "invalid_status")
    /\ \E r \in reports : r.status = "dismissed"

\* C19: an admin's update of an existing report to resolved or dismissed
\* stores that admin as resolved_by and the time of the update as
\* resolved_at; an update to pending leaves resolved_by and resolved_at of
\* the report as they were.
C19_ResolutionStamps ==
    \A a \in admins, old \in reports, notes \in AdminNotes, now \in Stamps :
        /\ \A status \in {"resolved", "dismissed"} :
              ~ENABLED (/\ update_report(a, old.id, status, notes, now)
                        /\ ~(\E r \in reports' : /\ r.id = old.id
                                                 /\ r.resolved_by = a
                                                 /\ r.resolved_at = now))
        /\ ~ENABLED (/\ update_report(a, old.id, "pending", notes, now)
                     /\ ~(\E r \in reports' : /\ r.id = old.id
                                              /\ r.resolved_by = old.resolved_by
                                              /\ r.resolved_at = old.resolved_at))

C19_Witness ==
    /\ resp = Response("update_report", 200, "updated")
    /\ \E r \in reports :
          /\ r.status = "pending"
          /\ r.resolved_by \in UserIds
          /\ r.resolved_at \in Stamps
          /\ admins \ {r.resolved_by} # {}

BelongsTo(id, u) == \E n \in notifications : n.id = id /\ n.user_id = u

\* C20: marking a notification as read and deleting a notification succeed
\* exactly when the notification belongs to the calling user, and then set
\* its read flag or remove it and touch no other notification; for a
\* notification of another user the answer is the one given for an id that
\* does not exist, and the notifications stay as they were.
C20_OnlyRecipient ==
    [][(resp'.op \in {"mark_notification_read", "delete_notification"}) =>
        \A u \in UserIds, id \in NotificationIds :
            /\ mark_notification_read(u, id) =>
                  IF BelongsTo(id, u)
                  THEN /\ resp'.status = 200
                       /\ notifications' = {IF n.id = id THEN [n EXCEPT !.is_read = TRUE] ELSE n
                                               : n \in notifications}
                  ELSE /\ resp' = Response("mark_notification_read", 400, "not_found_or_denied")
                       /\ notifications' = notifications
            /\ delete_notification_endpoint(u, id) =>
                  IF BelongsTo(id, u)
                  THEN /\ resp'.status = 200
                       /\ notifications' = {n \in notifications : n.id # id}
                  ELSE /\ resp' = Response("delete_notification", 400, "not_found_or_denied")
                       /\ notifications' = notifications]_vars

C20_Witness ==
    /\ resp = Response("mark_notification_read", 400, "not_found_or_denied")
    /\ \A id \in NotificationIds : \E n \in notifications : n.id = id /\ ~n.is_read

\* C21: after a user marks all notifications as read the user's unread count
\* is 0 and the user's list of unread notifications is empty, whatever the
\* user held before; a call made when the count is already 0, as a second
\* call in a row is, changes no notification and leaves the count at 0.
C21_MarkAllIdempotent ==
    [][resp'.op = "mark_all_notifications_read" =>
        \A u \in UserIds :
            mark_all_notifications_read(u) =>
                /\ get_unread_count(u)' = 0
                /\ get_user_notifications(u, TRUE)' = {}
                /\ get_unread_count(u) = 0 => notifications' = notifications]_vars

C21_Witness ==
    /\ resp.op = "mark_all_notifications_read"
    /\ \E u \in UserIds :
          /\ Cardinality(get_user_notifications(u, FALSE)) = 2
          /\ get_unread_count(u) = 0

Unchanged(n, m) ==
    /\ m.id = n.id
    /\ m.user_id = n.user_id
    /\ m.project_id = n.project_id
    /\ m.type = n.type
    /\ n.is_read => m.is_read

\* C22: in every step a stored notification keeps its recipient, project
\* and type, and its read flag stays or goes from unread to read; a
\* notification is changed or removed only by a mark-read, mark-all-read or
\* delete request of its recipient, and a mark-all-read of one user changes
\* no notification of another.
C22_NotificationFrame ==
    [][/\ \A n \in notifications, m \in notifications' : m.id = n.id => Unchanged(n, m)
       /\ IF resp'.op \in {"mark_notification_read", "mark_all_notifications_read",
                           "delete_notification"}
          THEN \A a \in UserIds :
                  (\/ mark_all_notifications_read(a)
                   \/ \E id \in NotificationIds : mark_notification_read(a, id)
                   \/ \E id \in NotificationIds : delete_notification_endpoint(a, id))
                      => \A n \in notifications : n.user_id # a => n \in notifications'
          ELSE notifications \subseteq notifications']_vars

C22_Witness ==
    /\ resp = Response("delete_notification", 400, "not_found_or_denied")
    /\ \E n, m \in notifications : n.is_read /\ ~m.is_read /\ n.user_id # m.user_id

Edited(rows, p, u) ==
    Cardinality({n \in rows : n.user_id = u /\ n.project_id = p /\ n.type = "project_edited"})

\* C23 as stated: an update answered 200 by an admin who is not an owner
\* gives each owner one project_edited notification and nobody else any; by
\* an owner who is not an admin it gives each admin one and the owners
\* none; an update by a user who is neither is answered 403 and changes
\* neither the project nor the notifications.
C23_OwnersReceiveNone ==
    [][resp'.op = "update_project" =>
        \A a \in UserIds, p \in DOMAIN projects, has_file \in BOOLEAN, saved \in BOOLEAN :
            update_project_endpoint(a, p, has_file, saved) =>
                LET new == notifications' \ notifications
                IN  /\ (resp'.status = 200 /\ is_admin(a) /\ ~is_project_owner(p, a)) =>
                          \A u \in UserIds :
                              Edited(new, p, u) = IF is_project_owner(p, u) THEN 1 ELSE 0
                    /\ (resp'.status = 200 /\ is_project_owner(p, a) /\ ~is_admin(a)) =>
                          /\ \A u \in admins : Edited(new, p, u) = 1
                          /\ \A u \in OwnersOf(p) : Edited(new, p, u) = 0
                    /\ (~is_project_owner(p, a) /\ ~is_admin(a)) =>
                          /\ resp'.status = 403
                          /\ projects' = projects
                          /\ notifications' = notifications]_vars

\* C23, amended: an update answered 200 by an admin who is not an owner
\* gives each owner one project_edited notification and nobody else any; by
\* an owner who is not an admin it gives each admin one, an admin who is
\* also an owner included, and nobody else any; an update by a user who is
\* neither is answered 403 and changes neither the project, its file nor
\* the notifications.
C23_EditFanout ==
    [][resp'.op = "update_project" =>
        \A a \in UserIds, p \in DOMAIN projects, has_file \in BOOLEAN, saved \in BOOLEAN :
            update_project_endpoint(a, p, has_file, saved) =>
                LET new == notifications' \ notifications
                IN  /\ notifications \subseteq notifications'
                    /\ \A n \in new : n.project_id = p /\ n.type = "project_edited"
                    /\ (resp'.status = 200 /\ is_admin(a) /\ ~is_project_owner(p, a)) =>
                          \A u \in UserIds :
                              Edited(new, p, u) = IF is_project_owner(p, u) THEN 1 ELSE 0
                    /\ (resp'.status = 200 /\ is_project_owner(p, a) /\ ~is_admin(a)) =>
                          \A u \in UserIds :
                              Edited(new, p, u) = IF is_admin(u) THEN 1 ELSE 0
                    /\ (~is_project_owner(p, a) /\ ~is_admin(a)) =>
                          /\ resp'.status = 403
                          /\ projects' = projects
                          /\ uploads' = uploads
                          /\ notifications' = notifications]_vars

C23_Witness ==
    /\ resp.op = "update_project"
    /\ resp.status = 200
    /\ \E p \in DOMAIN projects, u \in admins, w \in UserIds \ admins :
          /\ is_project_owner(p, u)
          /\ is_project_owner(p, w)
          /\ Edited(notifications, p, u) = 1
          /\ Edited(notifications, p, w) = 0

\* C24: an update and a delete of a report requested by a user who is not
\* an admin, the report's reporter included, are answered 403 and leave
\* every report, with its status, notes, resolver and resolution time, as it
\* was.
C24_ReportsOnlyByAdmins ==
    \A a \in UserIds \ admins, id \in ReportIds :
        /\ \A status \in StatusInputs, notes \in AdminNotes, now \in Stamps :
              ~ENABLED (/\ update_report(a, id, status, notes, now)
                        /\ ~(resp'.status = 403 /\ reports' = reports))
        /\ ~ENABLED (/\ delete_report_endpoint(a, id)
                     /\ ~(resp'.status = 403 /\ reports' = reports))

C24_Witness ==
    /\ resp = Response("update_report", 403, "admin_required")
    /\ \E r \in reports : r.reporter_id \notin admins /\ r.status = "resolved"

\* C30: an admin's update of an existing report to any of the three statuses
\* stores the notes supplied with it, and stores none when none are
\* supplied, whatever notes were stored before; the report's reporter and
\* targets stay as they were.
C30_NotesReplaced ==
    \A a \in admins, old \in reports, notes \in AdminNotes, now \in Stamps :
        \A status \in ReportStatuses :
            ~ENABLED (/\ update_report(a, old.id, status, notes, now)
                      /\ ~(/\ resp'.status = 200
                           /\ \E r \in reports' :
                                 /\ r.id = old.id
                                 /\ r.admin_notes = notes
                                 /\ r.reporter_id = old.reporter_id
                                 /\ r.reported_user_id = old.reported_user_id
                                 /\ r.reported_project_id = old.reported_project_id))

C30_Witness ==
    /\ resp = Response("update_report", 200, "updated")
    /\ \E r \in reports :
          /\ r.status = "dismissed"
          /\ r.admin_notes = NoNotes
          /\ r.resolved_at = MaxClock

\* C25: a removeOwner request that passes the permission tests has one of
\* three outcomes: when the project has at most one owner row it is answered
\* 400 as last owner, also when the user named is not an owner, and the
\* owner rows stay; otherwise, when the user named is not an owner of the
\* project, it is answered 400 as not an owner and the owner rows stay;
\* otherwise it is answered 200 and exactly the row of that project and user
\* is removed.
C25_RemoveOwnerOutcomes ==
    [][(resp'.op = "remove_owner" /\ resp'.status # 403) =>
        \A a \in UserIds, p \in ProjectIds, u \in UserIds :
            remove_project_owner(a, p, u) =>
                IF OwnerCount(p) <= 1
                THEN /\ resp' = Response("remove_owner", 400, "last_owner")
                     /\ project_owners' = project_owners
                ELSE IF ~is_project_owner(p, u)
                THEN /\ resp' = Response("remove_owner", 400, "not_an_owner")
                     /\ project_owners' = project_owners
                ELSE /\ resp' = Response("remove_owner", 200, "removed")
                     /\ project_owners' = project_owners \ {<<p, u>>}]_vars

C25_Witness ==
    /\ resp = Response("remove_owner", 400, "not_an_owner")
    /\ \E p \in DOMAIN projects : OwnerCount(p) = 2

\* C26: a get, a download and a media list of an unapproved project by a
\* caller who is anonymous or neither an owner nor an admin are answered as
\* the same request for a project id that does not exist is: 404, not found.
C26_UnapprovedReadsNotFound ==
    [][resp'.op \in {"get_project", "download_project", "get_project_media_list"} =>
        \A c \in UserIds \cup {None}, p \in DOMAIN projects :
            (/\ \/ get_project(c, p)
                \/ download_project(c, p)
                \/ get_project_media_list(c, p)
             /\ ~projects[p].approved
             /\ ~(c # None /\ (is_project_owner(p, c) \/ is_admin(c))))
                => resp'.status = 404 /\ resp'.message = "not_found"]_vars

\* C27: while an update that replaces the file of a project is being served,
\* no state that a concurrent read can see has the project with the new file
\* and still approved.
C27_ReplacementNeverApproved ==
    \A req \in InFlight :
        (req.pc = "unapprove" /\ req.project_id \in DOMAIN projects) =>
            ~(/\ projects[req.project_id].approved
              /\ projects[req.project_id].file_path = req.file_path)

\* C28: an update whose replacement file cannot be saved leaves the project
\* with a file path whose file is still stored, when it was before, and
\* with its approved flag as it was.
C28_FailedSaveKeepsFile ==
    [][resp'.op = "update_project" =>
        \A a \in UserIds, p \in DOMAIN projects :
            (/\ update_project_endpoint(a, p, TRUE, FALSE)
             /\ is_project_owner(p, a) \/ is_admin(a)
             /\ <<p, projects[p].file_path>> \in uploads)
                => /\ p \in DOMAIN projects'
                   /\ <<p, projects'[p].file_path>> \in uploads'
                   /\ projects'[p].approved = projects[p].approved]_vars

\* C29: a delete request answered 200 adds exactly one project_deleted
\* notification of the project for every owner other than the actor and
\* none for anyone else, and once the project row is gone each of them is
\* among the notifications listed for its recipient; no earlier
\* notification is removed.
C29_DeletionAnnounced ==
    [][(resp'.op = "delete_project" /\ resp'.status = 200) =>
        \A a \in UserIds, p \in DOMAIN projects :
            delete_project_endpoint(a, p) =>
                LET new == notifications' \ notifications
                IN  /\ p \notin DOMAIN projects'
                    /\ notifications \subseteq notifications'
                    /\ \A n \in new : n.project_id = p /\ n.type = "project_deleted"
                    /\ \A u \in UserIds :
                          /\ Cardinality({n \in new : n.user_id = u})
                                = IF is_project_owner(p, u) /\ u # a THEN 1 ELSE 0
                          /\ {n \in new : n.user_id = u}
                                \subseteq get_user_notifications(u, FALSE)']_vars

C29_Witness ==
    /\ resp = Response("delete_project", 200, "deleted")
    /\ DOMAIN projects = {}
    /\ \E u, w \in UserIds :
          /\ u # w
          /\ \E n \in get_user_notifications(u, FALSE) : n.type = "project_deleted"
          /\ \E n \in get_user_notifications(w, FALSE) : n.type = "project_deleted"

====
